---- MODULE Spec2Model ----
(***************************************************************************)
(* Sleep Schedule Analyzer (src/sleep_analyzer.py): the session store      *)
(* st.session_state.sleep_data, the two functions calculate_sleep_duration *)
(* and analyze_sleep_patterns, and the two handlers of the page (the       *)
(* "Add Entry" form and the "Clear All Data" button), each followed by the *)
(* script rerun that renders the analysis column.                          *)
(*                                                                         *)
(* Units.  A datetime is a whole number of minutes since midnight of day   *)
(* 0, so that a duration of d hours is held as 60*d minutes (the code's    *)
(* total_seconds()/3600 is minutes/60).  A mean is held as the exact       *)
(* fraction num/den.  A standard deviation is held by its square, the      *)
(* fraction num/den of the variance, and compared with a threshold c >= 0  *)
(* as variance > c*c.  All times of the model lie on a 45-minute grid, on  *)
(* which the code's binary floating-point sums are exact.                  *)
(***************************************************************************)
EXTENDS Integers, Sequences, FiniteSets

VARIABLES
    sleep_data,   \* st.session_state.sleep_data: the rows, in index order
    analysis,     \* the dict returned by the latest analyze_sleep_patterns call,
                  \* NoAnalysis when the latest script run did not call it
    shown,        \* what the analysis column of the latest script run shows
    trigger,      \* the widget that fired the latest run
    now_reads     \* the dates the two datetime.now() reads of the latest
                  \* calculate_sleep_duration call returned

vars == <<sleep_data, analysis, shown, trigger, now_reads>>

-----------------------------------------------------------------------------
(* Bounds of the model *)

\* Rows the store may hold before the form is no longer submitted.
MaxEntries == 2

\* Longest DataFrame handed to analyze_sleep_patterns when it is called directly.
MaxLen == 3

\* Values of st.date_input (day numbers).
Dates == {1, 2}

\* Values of st.time_input: 20:30, 21:15, 22:00, 23:30.
Times ==
    { [hour |-> 20, minute |-> 30], [hour |-> 21, minute |-> 15],
      [hour |-> 22, minute |-> 0],  [hour |-> 23, minute |-> 30] }

\* The dates returned by the two datetime.now().date() reads of one call:
\* the same day, or midnight passing between the first read and the second.
ClockReads == { <<0, 0>>, <<0, 1>> }

-----------------------------------------------------------------------------
(* Arithmetic *)

MinutesPerHour == 60

MinutesPerDay == 24 * MinutesPerHour

\* The number of minutes in n/d hours.
Hours(n, d) == (n * MinutesPerHour) \div d

Zero == [num |-> 0, den |-> 1]

RECURSIVE SumSeq(_)
SumSeq(s) == IF s = <<>> THEN 0 ELSE Head(s) + SumSeq(Tail(s))

\* num/den < c and num/den > c, for den > 0.
RatLT(r, c) == r.num < c * r.den

RatGT(r, c) == r.num > c * r.den

\* sqrt(num/den) > c, for c >= 0 and den >= 0.
StdGT(v, c) == v.num > c * c * v.den

-----------------------------------------------------------------------------
(* calculate_sleep_duration *)

\* datetime.combine(day, t), in minutes since midnight of day 0.
Combine(day, t) == day * MinutesPerDay + t.hour * MinutesPerHour + t.minute

\* Variant: the wrap applied on equal instants too (>= in place of >).
calculate_sleep_duration_ge(bedtime, waketime, today_b, today_w) ==
    LET bedtime_dt  == Combine(today_b, bedtime)
        waketime_dt == Combine(today_w, waketime)
        wake_dt     == IF bedtime_dt >= waketime_dt
                       THEN waketime_dt + MinutesPerDay
                       ELSE waketime_dt
    IN  wake_dt - bedtime_dt

\* today_b and today_w are the values of the two datetime.now().date() reads.
calculate_sleep_duration(bedtime, waketime, today_b, today_w) ==
    LET bedtime_dt  == Combine(today_b, bedtime)
        waketime_dt == Combine(today_w, waketime)
        wake_dt     == IF bedtime_dt > waketime_dt
                       THEN waketime_dt + MinutesPerDay
                       ELSE waketime_dt
    IN  wake_dt - bedtime_dt

-----------------------------------------------------------------------------
(* add_sleep_entry *)

\* One row of the DataFrame.
NewEntry(date, bedtime, waketime, sleep_duration) ==
    [Date |-> date, Bedtime |-> bedtime, WakeTime |-> waketime,
     SleepDuration |-> sleep_duration]

\* Variant: the row of an already stored date is replaced (an upsert).
add_sleep_entry_upsert(df, date, bedtime, waketime, reads) ==
    LET row  == NewEntry(date, bedtime, waketime,
                    calculate_sleep_duration(bedtime, waketime, reads[1], reads[2]))
        keep == SelectSeq(df, LAMBDA e : e.Date # date)
    IN  Append(keep, row)

\* pd.concat([sleep_data, new_entry], ignore_index=True)
add_sleep_entry(df, date, bedtime, waketime, reads) ==
    LET sleep_duration ==
            calculate_sleep_duration(bedtime, waketime, reads[1], reads[2])
    IN  Append(df, NewEntry(date, bedtime, waketime, sleep_duration))

-----------------------------------------------------------------------------
(* analyze_sleep_patterns *)

AddMoreData == "Add more data to get meaningful insights."

BelowRecommended == "Your average sleep duration is below the recommended 7-8 hours. Try to go to bed earlier or wake up later."

AboveRecommended == "Your average sleep duration is above the recommended 7-8 hours. While sleep needs vary, excessive sleep can sometimes indicate underlying health issues."

WithinRecommended == "Your average sleep duration is within the recommended range. Great job!"

BedtimeVaries == "Your bedtime varies significantly. Try to go to bed at the same time each night to improve sleep quality."

BedtimeIrregular == "Your bedtime is somewhat irregular. Consider establishing a more consistent sleep schedule."

BedtimeConsistent == "Your bedtime is consistent, which is excellent for maintaining healthy sleep patterns."

DurationVaries == "Your sleep duration varies considerably. Aim for a consistent amount of sleep each night."

\* df[name]
Column(df, name) == [i \in 1..Len(df) |-> df[i][name]]

\* Series.mean(): sum / count.
mean(values) == [num |-> SumSeq(values), den |-> Len(values)]

\* Variant: the population standard deviation (ddof = 0).
std_population(values) ==
    LET n  == Len(values)
        S  == SumSeq(values)
        sq == [i \in 1..n |-> (n * values[i] - S) * (n * values[i] - S)]
    IN  [num |-> SumSeq(sq), den |-> n * n * n]

\* Series.std(), ddof = 1: sqrt(sum((x - sum/n)^2) / (n - 1)), held by its
\* square with numerator and denominator both scaled by n*n.
std(values) ==
    LET n  == Len(values)
        S  == SumSeq(values)
        sq == [i \in 1..n |-> (n * values[i] - S) * (n * values[i] - S)]
    IN  [num |-> SumSeq(sq), den |-> n * n * (n - 1)]

\* lambda x: x.hour + x.minute/60 (every stored Bedtime has an hour), in minutes.
BedtimeHours(x) == x.hour * MinutesPerHour + x.minute

\* Variant: the lower boundary excluded from the recommended range.
duration_recommendation_le(avg_sleep) ==
    IF ~RatGT(avg_sleep, Hours(7, 1)) THEN BelowRecommended
    ELSE IF RatGT(avg_sleep, Hours(9, 1)) THEN AboveRecommended
    ELSE WithinRecommended

\* if avg_sleep < 7 ... elif avg_sleep > 9 ... else ...
duration_recommendation(avg_sleep) ==
    IF RatLT(avg_sleep, Hours(7, 1)) THEN BelowRecommended
    ELSE IF RatGT(avg_sleep, Hours(9, 1)) THEN AboveRecommended
    ELSE WithinRecommended

\* if bedtime_std > 1.5 ... elif bedtime_std > 0.75 ... else ...
bedtime_recommendation(bedtime_std) ==
    IF StdGT(bedtime_std, Hours(3, 2)) THEN BedtimeVaries
    ELSE IF StdGT(bedtime_std, Hours(3, 4)) THEN BedtimeIrregular
    ELSE BedtimeConsistent

\* Variant: >= in place of >.
variability_recommendation_ge(sleep_std) ==
    IF sleep_std.num >= Hours(3, 2) * Hours(3, 2) * sleep_std.den
    THEN <<DurationVaries>> ELSE <<>>

\* if sleep_std > 1.5: recommendations.append(...)
variability_recommendation(sleep_std) ==
    IF StdGT(sleep_std, Hours(3, 2)) THEN <<DurationVaries>> ELSE <<>>

NoAnalysis == [called |-> FALSE]

\* Variant: only the empty frame returns early (len(df) < 1).
analyze_sleep_patterns_lt1(df) ==
    IF Len(df) < 1
    THEN [avg_sleep         |-> Zero,
          sleep_consistency |-> Zero,
          recommendations   |-> <<AddMoreData>>]
    ELSE
        LET avg_sleep   == mean(Column(df, "SleepDuration"))
            sleep_std   == std(Column(df, "SleepDuration"))
            bedtimes    == [i \in 1..Len(df) |-> BedtimeHours(df[i].Bedtime)]
            bedtime_std == std(bedtimes)
        IN  [avg_sleep         |-> avg_sleep,
             sleep_consistency |-> bedtime_std,
             recommendations   |->
                 <<duration_recommendation(avg_sleep)>>
                 \o <<bedtime_recommendation(bedtime_std)>>
                 \o variability_recommendation(sleep_std)]

analyze_sleep_patterns(df) ==
    IF Len(df) < 2
    THEN [avg_sleep         |-> IF Len(df) > 0
                                THEN mean(Column(df, "SleepDuration"))
                                ELSE Zero,
          sleep_consistency |-> Zero,
          recommendations   |-> <<AddMoreData>>]
    ELSE
        LET avg_sleep   == mean(Column(df, "SleepDuration"))
            sleep_std   == std(Column(df, "SleepDuration"))
            bedtimes    == [i \in 1..Len(df) |-> BedtimeHours(df[i].Bedtime)]
            bedtime_std == std(bedtimes)
        IN  [avg_sleep         |-> avg_sleep,
             sleep_consistency |-> bedtime_std,
             recommendations   |->
                 <<duration_recommendation(avg_sleep)>>
                 \o <<bedtime_recommendation(bedtime_std)>>
                 \o variability_recommendation(sleep_std)]

-----------------------------------------------------------------------------
(* The page: one script run renders the analysis column *)

\* Variant: the analyzer is called whatever the store holds.
AnalysisColumn_unguarded(df) ==
    [analysis |-> analyze_sleep_patterns(df), shown |-> "analysis"]

\* with col2: if not sleep_data.empty: analysis = analyze_sleep_patterns(...)
\* else: st.info(...)
AnalysisColumn(df) ==
    IF df # <<>>
    THEN [analysis |-> analyze_sleep_patterns(df), shown |-> "analysis"]
    ELSE [analysis |-> NoAnalysis, shown |-> "placeholder"]

\* The state after the script run that follows a handler's st.rerun().
Rerun(df, widget, reads) ==
    /\ sleep_data' = df
    /\ analysis' = AnalysisColumn(df).analysis
    /\ shown' = AnalysisColumn(df).shown
    /\ trigger' = widget
    /\ now_reads' = reads

\* The first script run of a session: the store is created empty.
Init ==
    /\ sleep_data = <<>>
    /\ analysis = NoAnalysis
    /\ shown = "placeholder"
    /\ trigger = "none"
    /\ now_reads = <<0, 0>>

\* add_sleep_entry(date, bedtime, waketime); st.rerun(), for one submission of
\* the form and the two clock reads of its call.
SubmitWith(date, bedtime, waketime, reads) ==
    /\ Len(sleep_data) < MaxEntries
    /\ Rerun(add_sleep_entry(sleep_data, date, bedtime, waketime, reads),
             "submit", reads)

\* "Add Entry" submitted with any values of the three inputs.
SubmitEntry ==
    \E date \in Dates, bedtime \in Times, waketime \in Times, reads \in ClockReads :
        SubmitWith(date, bedtime, waketime, reads)

\* Variant: only the last row is dropped.
ClearedData_droplast == SubSeq(sleep_data, 1, Len(sleep_data) - 1)

\* pd.DataFrame(columns=[...]): the empty frame that replaces the store.
ClearedData == <<>>

\* "Clear All Data" pressed (the button exists while the store is not empty).
ClearAllData ==
    /\ sleep_data # <<>>
    /\ Rerun(ClearedData, "clear", now_reads)

Next == SubmitEntry \/ ClearAllData

Spec == Init /\ [][Next]_vars

-----------------------------------------------------------------------------
(* analyze_sleep_patterns called directly on a frame *)

\* Rows the store can hold (entered on the first date), the rows written while
\* midnight passed during the call included.
Rows ==
    { NewEntry(1, c[1], c[2],
               calculate_sleep_duration(c[1], c[2], c[3][1], c[3][2])) :
          c \in Times \X Times \X ClockReads }

Frames == UNION { [1..n -> Rows] : n \in 0..MaxLen }

InitAnalyze ==
    /\ sleep_data \in Frames
    /\ analysis = NoAnalysis
    /\ shown = "none"
    /\ trigger = "none"
    /\ now_reads = <<0, 0>>

CallAnalyze ==
    /\ trigger = "none"
    /\ analysis' = analyze_sleep_patterns(sleep_data)
    /\ trigger' = "call"
    /\ UNCHANGED <<sleep_data, shown, now_reads>>

NextAnalyze == CallAnalyze

SpecAnalyze == InitAnalyze /\ [][NextAnalyze]_vars

-----------------------------------------------------------------------------
(* Properties *)

\* A time of day as minutes after midnight.
MinuteOfDay(t) == t.hour * MinutesPerHour + t.minute

RECURSIVE Total(_, _)
Total(f, n) == IF n = 0 THEN 0 ELSE f[n] + Total(f, n - 1)

\* n*(n-1) times the sample variance of f[1..n]: n*sum(x^2) - sum(x)^2.
ScaledVariance(f, n) ==
    n * Total([i \in 1..n |-> f[i] * f[i]], n) - Total(f, n) * Total(f, n)

\* The sample standard deviation (divisor n-1) of f[1..n] exceeds c minutes.
SampleStdExceeds(f, n, c) == ScaledVariance(f, n) > c * c * n * (n - 1)

Durations == [i \in 1..Len(sleep_data) |-> sleep_data[i].SleepDuration]

Bedtimes == [i \in 1..Len(sleep_data) |-> MinuteOfDay(sleep_data[i].Bedtime)]

LastEntry == sleep_data[Len(sleep_data)]

AddMoreDataResult ==
    [avg_sleep |-> Zero, sleep_consistency |-> Zero,
     recommendations |-> <<AddMoreData>>]

\* C1: every stored duration is the elapsed time from bedtime b forward to the
\* next occurrence of wake time w: w - b when w > b, 24h - b + w when b > w.
C1_ElapsedToNextWake ==
    \A i \in 1..Len(sleep_data) :
        LET b == MinuteOfDay(sleep_data[i].Bedtime)
            w == MinuteOfDay(sleep_data[i].WakeTime)
            d == sleep_data[i].SleepDuration
        IN  /\ (w > b => d = w - b)
            /\ (b > w => d = MinutesPerDay - b + w)

\* C2 as stated: equal bedtime and wake time give a duration of exactly 24 hours.
C2_EqualTimesGive24 ==
    \A i \in 1..Len(sleep_data) :
        MinuteOfDay(sleep_data[i].Bedtime) = MinuteOfDay(sleep_data[i].WakeTime)
            => sleep_data[i].SleepDuration = MinutesPerDay

\* C2 as amended: equal bedtime and wake time give a duration of 0 hours when
\* both datetime.now() reads of the call return the same date (the wrap needs
\* bedtime_dt > waketime_dt strictly), and 24 hours only when the date
\* advanced between the two reads.
C2_EqualTimesGive0 ==
    /\ \A i \in 1..Len(sleep_data) :
           MinuteOfDay(sleep_data[i].Bedtime) = MinuteOfDay(sleep_data[i].WakeTime)
               => sleep_data[i].SleepDuration \in {0, MinutesPerDay}
    /\ (trigger = "submit"
        /\ MinuteOfDay(LastEntry.Bedtime) = MinuteOfDay(LastEntry.WakeTime))
           => LastEntry.SleepDuration =
                  IF now_reads[1] = now_reads[2] THEN 0 ELSE MinutesPerDay

C2_Witness ==
    /\ trigger = "submit"
    /\ LastEntry.Bedtime = LastEntry.WakeTime
    /\ now_reads[1] = now_reads[2]
    /\ LastEntry.SleepDuration = 0

\* C3: every stored entry has a SleepDuration d with 0 <= d < 24 hours.
C3_DurationInRange ==
    \A i \in 1..Len(sleep_data) :
        /\ sleep_data[i].SleepDuration >= 0
        /\ sleep_data[i].SleepDuration < MinutesPerDay

\* C4: on a frame of fewer than 2 entries analyze_sleep_patterns returns
\* sleep_consistency 0, the single recommendation "Add more data ...", and
\* avg_sleep 0 for the empty frame, the entry's duration for a one-entry frame.
C4_FewerThanTwo ==
    (trigger = "call" /\ Len(sleep_data) < 2) =>
        /\ analysis.sleep_consistency = Zero
        /\ analysis.recommendations = <<AddMoreData>>
        /\ Len(sleep_data) = 0 => analysis.avg_sleep = Zero
        /\ Len(sleep_data) = 1 =>
               /\ analysis.avg_sleep.den = 1
               /\ analysis.avg_sleep.num = sleep_data[1].SleepDuration

C4_Witness ==
    /\ trigger = "call"
    /\ Len(sleep_data) = 1
    /\ sleep_data[1].SleepDuration > 0
    /\ analysis.avg_sleep.num = sleep_data[1].SleepDuration
    /\ analysis.recommendations = <<AddMoreData>>

\* C5: each add appends exactly one entry at the end and leaves every stored
\* entry unchanged, so that N adds to the empty store give N entries in the
\* order added; no submission is rejected or merged, whatever its date (a
\* rejected or merged one would be a "submit" step that does not add a row).
C5_AppendOnly ==
    [][trigger' = "submit" =>
           /\ Len(sleep_data') = Len(sleep_data) + 1
           /\ SubSeq(sleep_data', 1, Len(sleep_data)) = sleep_data
           /\ sleep_data'[Len(sleep_data')].Date \in Dates
           /\ sleep_data'[Len(sleep_data')].Bedtime \in Times
           /\ sleep_data'[Len(sleep_data')].WakeTime \in Times]_vars

C5_Witness ==
    /\ trigger = "submit"
    /\ Len(sleep_data) = MaxEntries
    /\ sleep_data[1].Date = sleep_data[2].Date
    /\ sleep_data[1].Bedtime # sleep_data[2].Bedtime

\* C6: after the clear action the store holds zero entries and analysing it
\* gives the "Add more data ..." result with sleep_consistency 0, avg_sleep 0.
C6_ClearEmpties ==
    trigger = "clear" =>
        /\ Len(sleep_data) = 0
        /\ analyze_sleep_patterns(sleep_data) = AddMoreDataResult

C6_Witness ==
    /\ trigger = "clear"
    /\ sleep_data = <<>>
    /\ shown = "placeholder"

\* C7: on a frame of at least 2 entries the first recommendation is "below"
\* iff mean < 7 h, "above" iff mean > 9 h, "within" iff 7 h <= mean <= 9 h,
\* and exactly one of the three messages is in the list.
C7_DurationGuidance ==
    (trigger = "call" /\ Len(sleep_data) >= 2) =>
        LET n     == Len(sleep_data)
            total == Total(Durations, n)
            recs  == analysis.recommendations
            msgs  == {BelowRecommended, AboveRecommended, WithinRecommended}
        IN  /\ recs[1] = BelowRecommended <=> total < Hours(7, 1) * n
            /\ recs[1] = AboveRecommended <=> total > Hours(9, 1) * n
            /\ recs[1] = WithinRecommended <=>
                   (Hours(7, 1) * n <= total /\ total <= Hours(9, 1) * n)
            /\ Cardinality({i \in 1..Len(recs) : recs[i] \in msgs}) = 1

C7_Witness ==
    /\ trigger = "call"
    /\ Len(sleep_data) >= 2
    /\ Total(Durations, Len(sleep_data)) = Hours(7, 1) * Len(sleep_data)
    /\ analysis.recommendations[1] = WithinRecommended

\* C8: on a frame of at least 2 entries the second recommendation follows the
\* sample standard deviation s of the bedtimes: "varies significantly" iff
\* s > 1.5 h, "somewhat irregular" iff 0.75 h < s <= 1.5 h, "consistent" iff
\* s <= 0.75 h; equal bedtimes give sleep_consistency 0 and "consistent".
C8_BedtimeGuidance ==
    (trigger = "call" /\ Len(sleep_data) >= 2) =>
        LET n    == Len(sleep_data)
            recs == analysis.recommendations
            hi   == SampleStdExceeds(Bedtimes, n, Hours(3, 2))
            lo   == SampleStdExceeds(Bedtimes, n, Hours(3, 4))
        IN  /\ recs[2] = BedtimeVaries <=> hi
            /\ recs[2] = BedtimeIrregular <=> (lo /\ ~hi)
            /\ recs[2] = BedtimeConsistent <=> ~lo
            /\ (\A i \in 1..n : Bedtimes[i] = Bedtimes[1]) =>
                   /\ analysis.sleep_consistency.num = 0
                   /\ recs[2] = BedtimeConsistent
            /\ analysis.sleep_consistency.num * n * (n - 1)
                   = ScaledVariance(Bedtimes, n) * analysis.sleep_consistency.den

C8_Witness ==
    /\ trigger = "call"
    /\ Len(sleep_data) >= 2
    /\ ScaledVariance(Bedtimes, Len(sleep_data))
           = Hours(3, 2) * Hours(3, 2) * Len(sleep_data) * (Len(sleep_data) - 1)
    /\ analysis.recommendations[2] = BedtimeIrregular

\* C9: on a frame of at least 2 entries the result holds 2 or 3
\* recommendations in the order duration, bedtime consistency, duration
\* variability; the third is there iff the sample standard deviation of the
\* durations is > 1.5 h, and nothing else is appended.
C9_RecommendationList ==
    (trigger = "call" /\ Len(sleep_data) >= 2) =>
        LET n    == Len(sleep_data)
            recs == analysis.recommendations
        IN  /\ Len(recs) \in {2, 3}
            /\ recs[1] \in {BelowRecommended, AboveRecommended, WithinRecommended}
            /\ recs[2] \in {BedtimeVaries, BedtimeIrregular, BedtimeConsistent}
            /\ Len(recs) = 3 <=> SampleStdExceeds(Durations, n, Hours(3, 2))
            /\ Len(recs) = 3 => recs[3] = DurationVaries

C9_Witness ==
    /\ trigger = "call"
    /\ Len(sleep_data) >= 2
    /\ Len(analysis.recommendations) = 3
    /\ analysis.recommendations[3] = DurationVaries

\* C10: the analysis shown is analyze_sleep_patterns of the current store, and
\* the analyzer is called only when the store holds an entry; over an empty
\* store no analysis is computed and the placeholder is shown.
C10_AnalysisIsCurrent ==
    /\ sleep_data # <<>> =>
           /\ shown = "analysis"
           /\ analysis = analyze_sleep_patterns(sleep_data)
    /\ sleep_data = <<>> =>
           /\ shown = "placeholder"
           /\ analysis = NoAnalysis

C10_Witness ==
    /\ trigger = "submit"
    /\ Len(sleep_data) = 2
    /\ shown = "analysis"
    /\ Len(analysis.recommendations) >= 2
    /\ analysis.avg_sleep.num = sleep_data[1].SleepDuration + sleep_data[2].SleepDuration

====
